---- MODULE Spec2Model ----
(***************************************************************************)
(* MessageService (src/unnamed/part_000): the message gateway of the agent *)
(* runner.  A boolean flag isRunning gates every message on its way to the *)
(* injected renderMessage callback; seven entry points build a message and *)
(* hand it to sendMessage; sendErrorMessage classifies a caught value into *)
(* a translation key.                                                      *)
(*                                                                         *)
(* Strings are modelled as strings.  The leading emoji of the four         *)
(* analysis sentences are left out (the parser accepts ASCII only); the    *)
(* rest of each sentence is the source's text.                             *)
(***************************************************************************)
EXTENDS Integers, Sequences, FiniteSets, TLC

VARIABLES
    isRunning,  \* MessageService.isRunning
    rendered,   \* the arguments renderMessage was invoked with, in order
    calls,      \* history: the setIsRunning / sendMessage calls made so far
    last,       \* history: the latest public call, with the state it found
    inflight,   \* task-loop steps started and not yet completed
    budget      \* number of calls the run may still make (bounds the run)

vars == <<isRunning, rendered, calls, last, inflight, budget>>

(***************************************************************************)
(* Bounds of the model.                                                    *)
(***************************************************************************)
MaxCalls == 3
MaxGateCalls == 6
MaxAsyncCalls == 5
MaxSteps == 2

(***************************************************************************)
(* Program constants.                                                      *)
(***************************************************************************)
STATUS_QUOTA == 429
STATUS_NOT_FOUND == 404

MESSAGE_TYPE_GOAL == "goal"
MESSAGE_TYPE_SYSTEM == "system"
MESSAGE_TYPE_THINKING == "thinking"

\* translate(key, ns): the text resolver.  Its table is not part of the
\* gateway; the resolved text is a term over (ns, key), distinct from the key.
translate(key, ns) == ns \o ":" \o key

(***************************************************************************)
(* Inputs.                                                                 *)
(***************************************************************************)
Goals == {"Plan a trip", ""}

\* An Analysis {action, arg}; hasAction / hasArg = FALSE is a field that is
\* absent (reads as undefined).
ActionTags == {"search", "wikipedia", "image", "code", "reason"}
ArgTexts == {"cats", "Rome"}
Analyses ==
    { [hasAction |-> TRUE, action |-> a, hasArg |-> TRUE, arg |-> x] :
        a \in ActionTags, x \in ArgTexts }
    \cup { [hasAction |-> TRUE, action |-> a, hasArg |-> FALSE, arg |-> ""] :
        a \in ActionTags }
    \cup { [hasAction |-> FALSE, action |-> "", hasArg |-> h, arg |-> IF h THEN "cats" ELSE ""] :
        h \in BOOLEAN }
NoAnalysis == [hasAction |-> FALSE, action |-> "", hasArg |-> FALSE, arg |-> ""]

\* A caught value e: unknown.  kind is what the runtime tests can tell apart:
\* "axios" (axios.isAxiosError(e) is true), "string" (typeof e == "string"),
\* and other values.  An axios error may carry no response (network error).
Statuses == {200, 404, 429, 500}
AxiosErrors ==
    { [kind |-> "axios", hasResponse |-> TRUE, status |-> s, text |-> ""] : s \in Statuses }
    \cup { [kind |-> "axios", hasResponse |-> FALSE, status |-> 0, text |-> ""] }
StringFailures ==
    { [kind |-> "string", hasResponse |-> FALSE, status |-> 0, text |-> t] :
        t \in {"boom", "ERROR_ACCESSING_OPENAI_API_KEY"} }
OtherFailures ==
    { [kind |-> k, hasResponse |-> FALSE, status |-> 0, text |-> ""] :
        k \in {"object", "number", "null", "undefined"} }
Failures == AxiosErrors \cup StringFailures \cup OtherFailures
NoFailure == [kind |-> "undefined", hasResponse |-> FALSE, status |-> 0, text |-> ""]

\* Messages handed to sendMessage directly.
DirectMessages ==
    { [type |-> MESSAGE_TYPE_GOAL, value |-> "direct"],
      [type |-> MESSAGE_TYPE_SYSTEM, value |-> "direct"] }
NoMessage == [type |-> "", value |-> ""]

\* What the collaborators do during one call: both return, the text resolver
\* throws, or renderMessage throws.
Faults == {"none", "resolver", "sink"}

(***************************************************************************)
(* History bookkeeping.                                                    *)
(***************************************************************************)
SetEvent(b) == [op |-> "setIsRunning", b |-> b, msg |-> NoMessage]
SendEvent(m) == [op |-> "sendMessage", b |-> FALSE, msg |-> m]

NoStep == [id |-> 0, stopped |-> FALSE, restarted |-> FALSE]

Note(entry, goal, analysis, e, key, step, fault, outcome) ==
    last' = [entry |-> entry, running |-> isRunning, before |-> Len(rendered),
             goal |-> goal, analysis |-> analysis, e |-> e, key |-> key,
             step |-> step, fault |-> fault, outcome |-> outcome]

(***************************************************************************)
(* constructor (lines 15-18).                                              *)
(***************************************************************************)
constructorRunning ==
    /\ isRunning = TRUE
    /\ rendered = <<>>
    /\ calls = <<>>
    /\ last = [entry |-> "constructor", running |-> FALSE, before |-> 0,
               goal |-> "", analysis |-> NoAnalysis, e |-> NoFailure, key |-> "",
               step |-> NoStep, fault |-> "none", outcome |-> "returned"]
    /\ inflight = {}

constructor ==
    /\ isRunning = FALSE
    /\ rendered = <<>>
    /\ calls = <<>>
    /\ last = [entry |-> "constructor", running |-> FALSE, before |-> 0,
               goal |-> "", analysis |-> NoAnalysis, e |-> NoFailure, key |-> "",
               step |-> NoStep, fault |-> "none", outcome |-> "returned"]
    /\ inflight = {}

Init == constructor /\ budget = MaxCalls
InitGate == constructor /\ budget = MaxGateCalls
InitAsync == constructor /\ budget = MaxAsyncCalls

Spend == budget > 0 /\ budget' = budget - 1

(***************************************************************************)
(* setIsRunning (lines 20-22).  The steps in flight are marked: stopped    *)
(* once the flag was set to false after they started, restarted once it    *)
(* was set to true again after that.                                       *)
(***************************************************************************)
Marked(s, b) ==
    [id |-> s.id,
     stopped |-> s.stopped \/ ~b,
     restarted |-> s.restarted \/ (s.stopped /\ b)]

\* A flag that can be raised but not lowered.
storeIsRunningSticky(b) ==
    /\ isRunning' = (isRunning \/ b)
    /\ rendered' = rendered

storeIsRunning(b) ==
    /\ isRunning' = b
    /\ rendered' = rendered

setIsRunning(b) ==
    /\ Spend
    /\ storeIsRunning(b)
    /\ calls' = Append(calls, SetEvent(b))
    /\ inflight' = { Marked(s, b) : s \in inflight }
    /\ Note("setIsRunning", "", NoAnalysis, NoFailure, "", NoStep, "none", "returned")

(***************************************************************************)
(* sendMessage (lines 24-28): renderMessage is invoked iff isRunning.      *)
(***************************************************************************)
\* renderMessage invoked without consulting the flag.
sendMessageUngated(message) ==
    /\ rendered' = Append(rendered, message)
    /\ isRunning' = isRunning
    /\ calls' = Append(calls, SendEvent(message))

\* The flag read once, when the first call after a start is made, and kept.
sendMessageLatched(message) ==
    /\ rendered' = IF isRunning \/ rendered # <<>> THEN Append(rendered, message) ELSE rendered
    /\ isRunning' = isRunning
    /\ calls' = Append(calls, SendEvent(message))

sendMessage(message) ==
    /\ rendered' = IF isRunning THEN Append(rendered, message) ELSE rendered
    /\ isRunning' = isRunning
    /\ calls' = Append(calls, SendEvent(message))

\* How a call that reached sendMessage ends: renderMessage's exception, if it
\* was invoked and threw, is not caught anywhere in the class.
Outcome(fault) ==
    IF fault = "sink" /\ Len(rendered') > Len(rendered) THEN "sink_threw" ELSE "returned"

\* translate(...) threw while the argument of sendMessage was being built:
\* sendMessage is never called.
ResolverThrew ==
    /\ rendered' = rendered
    /\ isRunning' = isRunning
    /\ calls' = calls

\* sendMessage called by the owner of the service.
callSendMessage(message, fault) ==
    /\ Spend
    /\ fault # "resolver"
    /\ sendMessage(message)
    /\ Note("sendMessage", "", NoAnalysis, NoFailure, "", NoStep, fault, Outcome(fault))
    /\ UNCHANGED inflight

(***************************************************************************)
(* The fixed entry points (lines 30-53, 76-78).                            *)
(***************************************************************************)
goalMessageAsSystem(goal) == [type |-> MESSAGE_TYPE_SYSTEM, value |-> goal]

goalMessage(goal) == [type |-> MESSAGE_TYPE_GOAL, value |-> goal]

sendGoalMessage(goal, fault) ==
    /\ Spend
    /\ fault # "resolver"
    /\ sendMessage(goalMessage(goal))
    /\ Note("sendGoalMessage", goal, NoAnalysis, NoFailure, "", NoStep, fault, Outcome(fault))
    /\ UNCHANGED inflight

\* The key shown untranslated.
systemMessageRaw(key) == [type |-> MESSAGE_TYPE_SYSTEM, value |-> key]

systemMessage(key) == [type |-> MESSAGE_TYPE_SYSTEM, value |-> translate(key, "errors")]

\* this.sendMessage({ type: MESSAGE_TYPE_SYSTEM, value: translate(key, "errors") }):
\* the argument is evaluated first, so a throwing translate ends the call
\* before sendMessage is entered.
sendTranslated(entry, key, e, fault) ==
    IF fault = "resolver"
      THEN ResolverThrew
           /\ Note(entry, "", NoAnalysis, e, key, NoStep, fault, "resolver_threw")
      ELSE sendMessage(systemMessage(key))
           /\ Note(entry, "", NoAnalysis, e, key, NoStep, fault, Outcome(fault))

sendLoopMessage(fault) ==
    /\ Spend
    /\ sendTranslated("sendLoopMessage", "DEMO_LOOPS_REACHED", NoFailure, fault)
    /\ UNCHANGED inflight

sendManualShutdownMessage(fault) ==
    /\ Spend
    /\ sendTranslated("sendManualShutdownMessage", "AGENT_MANUALLY_SHUT_DOWN", NoFailure, fault)
    /\ UNCHANGED inflight

sendCompletedMessage(fault) ==
    /\ Spend
    /\ sendTranslated("sendCompletedMessage", "ALL_TASKS_COMPLETETD", NoFailure, fault)
    /\ UNCHANGED inflight

thinkingMessage == [type |-> MESSAGE_TYPE_THINKING, value |-> ""]

sendThinkingMessage(fault) ==
    /\ Spend
    /\ fault # "resolver"
    /\ sendMessage(thinkingMessage)
    /\ Note("sendThinkingMessage", "", NoAnalysis, NoFailure, "", NoStep, fault, Outcome(fault))
    /\ UNCHANGED inflight


(***************************************************************************)
(* sendAnalysisMessage (lines 55-74): four independent checks, in source   *)
(* order, each overwriting the message when its tag matches.               *)
(***************************************************************************)
\* analysis.action == tag; an absent action reads as undefined and matches
\* no tag.
actionIs(analysis, tag) == analysis.hasAction /\ analysis.action = tag

\* ${analysis.arg} inside a template literal: an absent arg renders as the
\* text "undefined".
argText(analysis) == IF analysis.hasArg THEN analysis.arg ELSE "undefined"

defaultSentence == "Generating response..."

sentenceFor(tag, analysis) ==
    CASE tag = "search" -> "Searching the web for \"" \o argText(analysis) \o "\"..."
      [] tag = "wikipedia" -> "Searching Wikipedia for \"" \o argText(analysis) \o "\"..."
      [] tag = "image" -> "Generating an image with prompt: \"" \o argText(analysis) \o "\"..."
      [] tag = "code" -> "Writing code..."

\* One `if (analysis.action == tag) message = ...` statement.
applyCheck(tag, analysis, message) ==
    IF actionIs(analysis, tag) THEN sentenceFor(tag, analysis) ELSE message

RECURSIVE applyChecks(_, _, _)
applyChecks(order, analysis, message) ==
    IF order = <<>> THEN message
    ELSE applyChecks(Tail(order), analysis, applyCheck(Head(order), analysis, message))

checkOrder == <<"search", "wikipedia", "image", "code">>

\* The checks chained with else-if in another order, "code" embedding arg.
analysisSentenceCodeArg(analysis) ==
    IF actionIs(analysis, "code")
      THEN "Writing code for \"" \o argText(analysis) \o "\"..."
      ELSE applyChecks(<<"search", "wikipedia", "image">>, analysis, defaultSentence)

analysisSentence(analysis) == applyChecks(checkOrder, analysis, defaultSentence)

analysisMessage(analysis) ==
    [type |-> MESSAGE_TYPE_SYSTEM, value |-> analysisSentence(analysis)]

sendAnalysisMessage(analysis, fault) ==
    /\ Spend
    /\ fault # "resolver"
    /\ sendMessage(analysisMessage(analysis))
    /\ Note("sendAnalysisMessage", "", analysis, NoFailure, "", NoStep, fault, Outcome(fault))
    /\ UNCHANGED inflight

(***************************************************************************)
(* sendErrorMessage (lines 80-92).                                         *)
(***************************************************************************)
isAxiosError(e) == e.kind = "axios"

\* e.response?.status: <<s>> when a response is there, <<>> (undefined) when
\* it is not.
responseStatus(e) == IF e.hasResponse THEN <<e.status>> ELSE <<>>

\* Line 85 as an else-if of line 84: 429 keeps the quota key.
classifyElseIf(e) ==
    IF isAxiosError(e) THEN
        IF responseStatus(e) = <<STATUS_QUOTA>> THEN "ERROR_API_KEY_QUOTA"
        ELSE IF responseStatus(e) = <<STATUS_NOT_FOUND>> THEN "ERROR_OPENAI_API_KEY_NO_GPT4"
        ELSE "ERROR_ACCESSING_OPENAI_API_KEY"
    ELSE IF e.kind = "string" THEN e.text
    ELSE "ERROR_RETRIEVE_INITIAL_TASKS"

\* The transport branch entered only when a response is there.
classifyResponseOnly(e) ==
    IF isAxiosError(e) /\ e.hasResponse THEN
        IF responseStatus(e) = <<STATUS_NOT_FOUND>> THEN "ERROR_OPENAI_API_KEY_NO_GPT4"
        ELSE "ERROR_ACCESSING_OPENAI_API_KEY"
    ELSE IF e.kind = "string" THEN e.text
    ELSE "ERROR_RETRIEVE_INITIAL_TASKS"

\* The default key lost: every unrecognized value reported as an access error.
classifyNoDefault(e) ==
    IF isAxiosError(e) THEN
        IF responseStatus(e) = <<STATUS_NOT_FOUND>> THEN "ERROR_OPENAI_API_KEY_NO_GPT4"
        ELSE "ERROR_ACCESSING_OPENAI_API_KEY"
    ELSE IF e.kind = "string" THEN e.text
    ELSE "ERROR_ACCESSING_OPENAI_API_KEY"

classify(e) ==
    LET message0 == "ERROR_RETRIEVE_INITIAL_TASKS" IN
    IF isAxiosError(e) THEN
        \* line 84; the statement of line 85 assigns on both of its branches,
        \* so this value never survives.
        LET afterQuotaCheck == IF responseStatus(e) = <<STATUS_QUOTA>>
                                 THEN "ERROR_API_KEY_QUOTA" ELSE message0
            afterNotFoundCheck == IF responseStatus(e) = <<STATUS_NOT_FOUND>>
                                    THEN "ERROR_OPENAI_API_KEY_NO_GPT4"
                                    ELSE "ERROR_ACCESSING_OPENAI_API_KEY"
        IN  afterNotFoundCheck
    ELSE IF e.kind = "string" THEN e.text
    ELSE message0

sendErrorMessage(e, fault) ==
    /\ Spend
    /\ sendTranslated("sendErrorMessage", classify(e), e, fault)
    /\ UNCHANGED inflight

(***************************************************************************)
(* The task loop that owns the service: steps are started while the loop   *)
(* runs and complete later, each reporting through sendMessage.            *)
(***************************************************************************)
StepIds == 1..MaxSteps

stepMessage(s) == [type |-> MESSAGE_TYPE_SYSTEM, value |-> "step result"]

StartStep(id) ==
    /\ isRunning
    /\ \A s \in inflight : s.id # id
    /\ inflight' = inflight \cup {[id |-> id, stopped |-> FALSE, restarted |-> FALSE]}
    /\ UNCHANGED <<isRunning, rendered, calls, last, budget>>

CompleteStep(s) ==
    /\ Spend
    /\ s \in inflight
    /\ inflight' = inflight \ {s}
    /\ sendMessage(stepMessage(s))
    /\ Note("step", "", NoAnalysis, NoFailure, "", s, "none", "returned")

(***************************************************************************)
(* Specifications.                                                         *)
(***************************************************************************)
\* Every public operation, the collaborators honouring their contracts
\* (renderMessage and translate return).
Next ==
    \/ \E b \in BOOLEAN : setIsRunning(b)
    \/ \E m \in DirectMessages : callSendMessage(m, "none")
    \/ \E g \in Goals : sendGoalMessage(g, "none")
    \/ sendLoopMessage("none")
    \/ sendManualShutdownMessage("none")
    \/ sendCompletedMessage("none")
    \/ sendThinkingMessage("none")
    \/ \E a \in Analyses : sendAnalysisMessage(a, "none")
    \/ \E e \in Failures : sendErrorMessage(e, "none")

Spec == Init /\ [][Next]_vars

\* The same operations with collaborators that may throw.
NextThrow ==
    \/ \E b \in BOOLEAN : setIsRunning(b)
    \/ \E m \in DirectMessages, f \in Faults : callSendMessage(m, f)
    \/ \E g \in Goals, f \in Faults : sendGoalMessage(g, f)
    \/ \E f \in Faults : sendLoopMessage(f)
    \/ \E f \in Faults : sendManualShutdownMessage(f)
    \/ \E f \in Faults : sendCompletedMessage(f)
    \/ \E f \in Faults : sendThinkingMessage(f)
    \/ \E a \in Analyses, f \in Faults : sendAnalysisMessage(a, f)
    \/ \E e \in Failures, f \in Faults : sendErrorMessage(e, f)

SpecThrow == Init /\ [][NextThrow]_vars

\* The gate alone: setIsRunning and sendMessage, in longer sequences.
NextGate ==
    \/ \E b \in BOOLEAN : setIsRunning(b)
    \/ \E m \in DirectMessages : callSendMessage(m, "none")

SpecGate == InitGate /\ [][NextGate]_vars

\* The task loop with steps in flight.
NextAsync ==
    \/ \E b \in BOOLEAN : setIsRunning(b)
    \/ \E id \in StepIds : StartStep(id)
    \/ \E s \in inflight : CompleteStep(s)

SpecAsync == InitAsync /\ [][NextAsync]_vars

(***************************************************************************)
(* Properties.                                                             *)
(***************************************************************************)
Delivered == Len(rendered) - last.before
LastRendered == rendered[Len(rendered)]

EntryPoints ==
    {"sendGoalMessage", "sendLoopMessage", "sendManualShutdownMessage",
     "sendCompletedMessage", "sendThinkingMessage", "sendAnalysisMessage",
     "sendErrorMessage"}

\* The messages of the sendMessage calls of a log that were made while the
\* flag was true; flag is the argument of the latest setIsRunning before the
\* head of the log.
RECURSIVE Admitted(_, _)
Admitted(log, flag) ==
    IF log = <<>> THEN <<>>
    ELSE LET ev == Head(log) IN
         IF ev.op = "setIsRunning" THEN Admitted(Tail(log), ev.b)
         ELSE IF flag THEN <<ev.msg>> \o Admitted(Tail(log), flag)
         ELSE Admitted(Tail(log), flag)

\* C1: after any sequence of setIsRunning and sendMessage calls, renderMessage
\* has received exactly the messages sent while isRunning was true (false
\* before the first setIsRunning), in the order sent, each once; a message
\* sent while the flag was false is never delivered later.
C1_Gating == rendered = Admitted(calls, FALSE)

C1_Witness ==
    \E m1, m2 \in DirectMessages :
        /\ m1 # m2
        /\ calls = <<SendEvent(m1), SetEvent(TRUE), SendEvent(m2),
                     SetEvent(FALSE), SendEvent(m1), SetEvent(TRUE)>>
        /\ rendered = <<m2>>

\* C2: for an axios error carrying a response with status s, the key is
\* ERROR_OPENAI_API_KEY_NO_GPT4 when s = 404 and ERROR_ACCESSING_OPENAI_API_KEY
\* for every other s (429 and 500 included); ERROR_API_KEY_QUOTA is never the
\* key.
C2_TransportBranch ==
    (last.entry = "sendErrorMessage" /\ last.e.kind = "axios" /\ last.e.hasResponse) =>
        /\ last.key = IF last.e.status = 404 THEN "ERROR_OPENAI_API_KEY_NO_GPT4"
                      ELSE "ERROR_ACCESSING_OPENAI_API_KEY"
        /\ last.key # "ERROR_API_KEY_QUOTA"
        /\ last.running => LastRendered.value = translate(last.key, "errors")

C2_Witness ==
    /\ last.entry = "sendErrorMessage"
    /\ last.e.kind = "axios" /\ last.e.hasResponse /\ last.e.status = 429
    /\ last.running
    /\ LastRendered.value = translate("ERROR_ACCESSING_OPENAI_API_KEY", "errors")

\* C3, as claimed: the keys model-unavailable and generic-access-error are
\* selected only for an axios error carrying a response; every other value
\* gives its own text when it is a string and the default
\* ERROR_RETRIEVE_INITIAL_TASKS otherwise (an axios error without a response
\* included).
C3_AsClaimed ==
    last.entry = "sendErrorMessage" =>
        LET e == last.e
            transport == e.kind = "axios" /\ e.hasResponse
        IN  /\ (e.kind # "string"
                  /\ last.key \in {"ERROR_OPENAI_API_KEY_NO_GPT4",
                                    "ERROR_ACCESSING_OPENAI_API_KEY"})
                 => transport
            /\ ~transport =>
                 last.key = IF e.kind = "string" THEN e.text
                            ELSE "ERROR_RETRIEVE_INITIAL_TASKS"

\* C3, amended: every axios error takes the transport branch, with or without
\* a response, and an axios error without a response gets
\* ERROR_ACCESSING_OPENAI_API_KEY; a value that is no axios error gives its own
\* text when it is a string and ERROR_RETRIEVE_INITIAL_TASKS otherwise.
C3_NonTransportBranch ==
    last.entry = "sendErrorMessage" =>
        LET e == last.e IN
        /\ (e.kind = "axios" /\ ~e.hasResponse) => last.key = "ERROR_ACCESSING_OPENAI_API_KEY"
        /\ e.kind = "axios" =>
             last.key \in {"ERROR_OPENAI_API_KEY_NO_GPT4", "ERROR_ACCESSING_OPENAI_API_KEY"}
        /\ e.kind = "string" => last.key = e.text
        /\ e.kind \notin {"axios", "string"} => last.key = "ERROR_RETRIEVE_INITIAL_TASKS"

C3_Witness ==
    /\ last.entry = "sendErrorMessage"
    /\ last.e.kind = "axios" /\ ~last.e.hasResponse
    /\ last.key = "ERROR_ACCESSING_OPENAI_API_KEY"
    /\ last.running
    /\ LastRendered.value = translate("ERROR_ACCESSING_OPENAI_API_KEY", "errors")

\* The sentence the claim gives for each action.
ExpectedSentence(a) ==
    LET arg == IF a.hasArg THEN a.arg ELSE "undefined" IN
    IF ~a.hasAction THEN "Generating response..."
    ELSE CASE a.action = "search" -> "Searching the web for \"" \o arg \o "\"..."
           [] a.action = "wikipedia" -> "Searching Wikipedia for \"" \o arg \o "\"..."
           [] a.action = "image" -> "Generating an image with prompt: \"" \o arg \o "\"..."
           [] a.action = "code" -> "Writing code..."
           [] OTHER -> "Generating response..."

\* Every order in which the four checks can be evaluated.
RECURSIVE Orders(_)
Orders(tags) ==
    IF tags = {} THEN {<<>>}
    ELSE UNION { { <<t>> \o o : o \in Orders(tags \ {t}) } : t \in tags }

CheckOrders == Orders({"search", "wikipedia", "image", "code"})

\* C4: sendAnalysisMessage builds a SystemStatus message whose text is the
\* sentence of the action (embedding arg for search, wikipedia and image; fixed
\* for code; the generic sentence for any other or absent action), and the
\* four checks give that sentence in every evaluation order.
C4_AnalysisSentence ==
    last.entry = "sendAnalysisMessage" =>
        LET a == last.analysis IN
        /\ analysisMessage(a) = [type |-> "system", value |-> ExpectedSentence(a)]
        /\ last.running => LastRendered = [type |-> "system", value |-> ExpectedSentence(a)]
        /\ \A o \in CheckOrders : applyChecks(o, a, defaultSentence) = analysisSentence(a)

C4_Witness ==
    /\ last.entry = "sendAnalysisMessage"
    /\ last.running
    /\ last.analysis.hasAction /\ last.analysis.action = "code"
    /\ last.analysis.hasArg /\ last.analysis.arg = "cats"
    /\ LastRendered = [type |-> "system", value |-> "Writing code..."]

\* C5: a call of an entry point invokes renderMessage exactly once when
\* isRunning is true and not at all when it is false, and the message has the
\* kind of the entry point: Goal with the given text for sendGoalMessage,
\* Thinking with the empty string for sendThinkingMessage, SystemStatus for
\* the others.
C5_OnePublishPerCall ==
    last.entry \in EntryPoints =>
        /\ Delivered = IF last.running THEN 1 ELSE 0
        /\ last.running =>
             CASE last.entry = "sendGoalMessage" ->
                    LastRendered = [type |-> "goal", value |-> last.goal]
               [] last.entry = "sendThinkingMessage" ->
                    LastRendered = [type |-> "thinking", value |-> ""]
               [] OTHER -> LastRendered.type = "system"

C5_Witness ==
    /\ last.entry = "sendGoalMessage"
    /\ last.running
    /\ last.goal = "Plan a trip"
    /\ Delivered = 1
    /\ LastRendered = [type |-> "goal", value |-> "Plan a trip"]

\* C6: a new MessageService is not running, and nothing is rendered before the
\* first setIsRunning(true).
C6_InitiallyStopped ==
    /\ calls = <<>> => ~isRunning
    /\ (\A i \in 1..Len(calls) : calls[i] # SetEvent(TRUE)) => rendered = <<>>

C6_Witness ==
    /\ Len(calls) = 3
    /\ \A i \in 1..Len(calls) : calls[i].op = "sendMessage"
    /\ last.entry = "sendThinkingMessage"
    /\ rendered = <<>>

\* The key of a failure value, as a table over the value alone.
ExpectedKey(e) ==
    CASE e.kind = "axios" /\ e.hasResponse /\ e.status = 404 -> "ERROR_OPENAI_API_KEY_NO_GPT4"
      [] e.kind = "axios" /\ ~(e.hasResponse /\ e.status = 404) -> "ERROR_ACCESSING_OPENAI_API_KEY"
      [] e.kind = "string" -> e.text
      [] OTHER -> "ERROR_RETRIEVE_INITIAL_TASKS"

\* C7: sendErrorMessage(e) while running delivers exactly one SystemStatus
\* message whose value is the resolver's text for (key of e, "errors"),
\* unmodified; while not running it delivers nothing; the key is a function of
\* e alone, whatever the flag and the earlier calls.
C7_FailureDelivery ==
    last.entry = "sendErrorMessage" =>
        /\ last.key = ExpectedKey(last.e)
        /\ IF last.running
             THEN /\ Delivered = 1
                  /\ LastRendered = [type |-> "system",
                                     value |-> translate(ExpectedKey(last.e), "errors")]
             ELSE Delivered = 0

C7_Witness ==
    /\ last.entry = "sendErrorMessage"
    /\ last.running
    /\ last.e.kind = "axios" /\ last.e.hasResponse /\ last.e.status = 404
    /\ Delivered = 1
    /\ LastRendered = [type |-> "system",
                       value |-> translate("ERROR_OPENAI_API_KEY_NO_GPT4", "errors")]

\* C8, as claimed: a step started before a setIsRunning(false) never has its
\* message rendered, whatever setIsRunning calls come later.
C8_AsClaimed ==
    (last.entry = "step" /\ last.step.stopped) => Delivered = 0

\* C8, amended: the message of a step is rendered iff isRunning is true when
\* the step publishes; a step started before a setIsRunning(false) is
\* suppressed as long as no setIsRunning(true) has followed that stop.
C8_StoppedLoopSuppressed ==
    last.entry = "step" =>
        /\ Delivered = IF last.running THEN 1 ELSE 0
        /\ (last.step.stopped /\ ~last.step.restarted) => Delivered = 0

C8_Witness ==
    /\ last.entry = "step"
    /\ last.step.stopped /\ ~last.step.restarted
    /\ Delivered = 0
    /\ \E i \in 1..Len(calls) : calls[i] = SetEvent(TRUE)

\* C9: setIsRunning(b) sets the flag to b from any previous value and renders
\* nothing; every other call leaves the flag as it was.
C9_Frame ==
    [][ IF last'.entry = "setIsRunning" /\ budget' # budget
          THEN /\ \E b \in BOOLEAN : calls' = Append(calls, SetEvent(b)) /\ isRunning' = b
               /\ rendered' = rendered
          ELSE isRunning' = isRunning ]_vars

C9_Witness ==
    /\ calls = <<SetEvent(TRUE), SetEvent(FALSE), SetEvent(FALSE)>>
    /\ ~isRunning
    /\ rendered = <<>>

====
